---- MODULE Spec2Model ----
(***************************************************************************)
(* Model of the position ledger of dxdye/positionsys:                      *)
(*   src/src/position/position.py   Position, StopLossPosition,            *)
(*                                  PositionHub, PositionManagement        *)
(*                                                                         *)
(* A client performs one API call per step.  Every call either returns or  *)
(* raises; what it raised is recorded in last.exc together with the state  *)
(* before the call, so that a claim about "the call did X" is a state      *)
(* predicate.                                                              *)
(*                                                                         *)
(* Python call binding is part of the behaviour: a call that supplies no   *)
(* value for a required parameter, or a keyword the callee does not        *)
(* declare, raises TypeError before the callee's body runs.  Calls are     *)
(* therefore modelled with the arguments they supply (a record keyed by    *)
(* parameter name) and every callee checks Binds first.  Reading an        *)
(* attribute that was never assigned raises AttributeError; an attribute   *)
(* that may be absent or None is a sequence of length 0 or 1.              *)
(*                                                                         *)
(* Amounts are counted in thousandths, stop-loss and tax rates in percent. *)
(* Timestamps (createdAt, closedAt) carry no behaviour and are left out.   *)
(***************************************************************************)
EXTENDS Integers, Sequences, FiniteSets, TLC

VARIABLES
  heap,       \* the Position objects constructed so far; an object is its index
  positions,  \* PositionHub.positions: the ledger, a sequence of objects
  length,     \* PositionHub.length
  tax_rate,   \* PositionManagement.tax_rate, in percent
  last,       \* the last call: what was called, with what, and what it raised
  opens,      \* what each call of the current run of open calls raised
  bot,        \* the SMABot object the client holds, if one was constructed
  df,         \* detect_structure: the rows of df read so far that it still reads
  iNext,      \* detect_structure: the value i takes in the next iteration
  state,      \* detect_structure: state
  run_color,  \* detect_structure: run_color
  run_len,    \* detect_structure: run_len
  candidate,  \* detect_structure: candidate
  structure,  \* detect_structure: structure
  picked      \* the rows of df that candidate and structure name by their time

posVars == <<heap, positions, length, tax_rate, last, opens>>
detVars == <<df, iNext, state, run_color, run_len, candidate, structure, picked>>
vars == <<posVars, bot, detVars>>

\* ------------------------------------------------------------------ bounds

MaxObjects == 2

\* The longest ledger a client builds by writing the hub's fields itself.
MaxLedger == 3

\* ------------------------------------------------------- program constants

SMALLEST_INVEST == 10

\* ---------------------------------------------------------------- inputs

EntryPrices == {0, 100}
Amounts == {0, 1000}
HubAmounts == {5, 1000}
ClosePrices == {-5, 0, 88, 112}
OrderTypes == {"long", "short"}
PositionTypes == {"basic", "stop_loss", "take_profit"}
StopLossPercents == {0, 10, 100}
TaxRates == {0, 25}

\* PositionManagement.data: the closing prices of the bars, as the DummyData of
\* the tests supplies them (open = close).
Bars == <<100, 88, 112>>

\* ------------------------------------------------------------ call binding

NoArgs == [k \in {} |-> 0]

\* A call binds when every required parameter is supplied and every supplied
\* keyword is declared by the callee.
Binds(args, required, declared) ==
  /\ required \subseteq DOMAIN args
  /\ DOMAIN args \subseteq declared

None == <<>>
Some(v) == <<v>>

\* ---------------------------------------------------------------- Position

\* Position.__init__: the object a successful construction yields.  The
\* parameter currentIdx is passed to mapIndexToTime only; no attribute of that
\* name is assigned.
NewPositionObject(args) ==
  [ cls             |-> "Position",
    entry_price     |-> args.entry_price,
    amount          |-> args.amount,
    orderType       |-> IF "orderType" \in DOMAIN args THEN args.orderType ELSE "long",
    isOpen          |-> TRUE,
    close_price     |-> None,
    positionType    |-> "basic",
    stopLossPercent |-> None,
    currentIdx      |-> None ]

\* Position.__init__(entry_price, amount, timeFrame, orderType=LONG, currentIdx=0)
\* (timeFrame is always a TimeFrame here and is left out of the record).
Position_init(args) ==
  IF ~Binds(args, {"entry_price", "amount"},
                  {"entry_price", "amount", "orderType", "currentIdx"})
    THEN [exc |-> "TypeError", obj |-> None]
  ELSE IF args.amount <= 0
    THEN [exc |-> "InvalidAmount", obj |-> None]
  ELSE IF args.entry_price <= 0
    THEN [exc |-> "InvalidEntryPrice", obj |-> None]
  ELSE [exc |-> "none", obj |-> Some(NewPositionObject(args))]

\* StopLossPosition.__init__(amount, timeFrame, stopLossPercent, orderType=LONG):
\* forwards amount, timeFrame and orderType to Position.__init__, then
\* validates the percentage.
StopLossPosition_init(args) ==
  IF ~Binds(args, {"amount", "stopLossPercent"},
                  {"amount", "stopLossPercent", "orderType"})
    THEN [exc |-> "TypeError", obj |-> None]
  ELSE
    LET base == Position_init(
                  [k \in (DOMAIN args) \ {"stopLossPercent"} |-> args[k]])
    IN  IF base.exc # "none" THEN base
        ELSE IF args.stopLossPercent <= 0 \/ args.stopLossPercent >= 100
          THEN [exc |-> "InvalidStopLoss", obj |-> None]
        ELSE [exc |-> "none",
              obj |-> Some([base.obj[1] EXCEPT
                              !.cls = "StopLossPosition",
                              !.stopLossPercent = Some(args.stopLossPercent)])]

\* Position.close that marks the position closed before it looks at the price.
Position_close_CheckAfterClose(h, o, args) ==
  IF ~Binds(args, {"close_price"}, {"close_price"})
    THEN [heap |-> h, exc |-> "TypeError"]
  ELSE IF h[o].isOpen
    THEN LET h1 == [h EXCEPT ![o].isOpen = FALSE]
         IN  IF args.close_price <= 0
               THEN [heap |-> h1, exc |-> "InvalidClosePrice"]
             ELSE IF h1[o].currentIdx = None
               THEN [heap |-> h1, exc |-> "AttributeError"]
             ELSE [heap |-> [h1 EXCEPT ![o].close_price = Some(args.close_price)],
                   exc  |-> "none"]
  ELSE [heap |-> h, exc |-> "AlreadyClosed"]

\* Position.close(close_price)
Position_close(h, o, args) ==
  IF ~Binds(args, {"close_price"}, {"close_price"})
    THEN [heap |-> h, exc |-> "TypeError"]
  ELSE IF args.close_price <= 0
    THEN [heap |-> h, exc |-> "InvalidClosePrice"]
  ELSE IF h[o].isOpen
    THEN LET h1 == [h EXCEPT ![o].isOpen = FALSE]
         IN  IF h1[o].currentIdx = None
               THEN [heap |-> h1, exc |-> "AttributeError"]
               ELSE [heap |-> [h1 EXCEPT ![o].close_price = Some(args.close_price)],
                     exc  |-> "none"]
  ELSE [heap |-> h, exc |-> "AlreadyClosed"]

\* forceClose that books the closing price as the entry price.
Position_forceClose_OverwritesEntry(h, o, args) ==
  IF ~Binds(args, {"close_price"}, {"close_price"})
    THEN [heap |-> h, exc |-> "TypeError"]
  ELSE IF args.close_price <= 0
    THEN [heap |-> h, exc |-> "InvalidClosePrice"]
  ELSE LET h1 == [h EXCEPT ![o].isOpen = FALSE,
                           ![o].entry_price = args.close_price]
       IN  IF h1[o].currentIdx = None
             THEN [heap |-> h1, exc |-> "AttributeError"]
             ELSE [heap |-> [h1 EXCEPT ![o].close_price = Some(args.close_price)],
                   exc  |-> "none"]

\* Position.forceClose(close_price)
Position_forceClose(h, o, args) ==
  IF ~Binds(args, {"close_price"}, {"close_price"})
    THEN [heap |-> h, exc |-> "TypeError"]
  ELSE IF args.close_price <= 0
    THEN [heap |-> h, exc |-> "InvalidClosePrice"]
  ELSE LET h1 == [h EXCEPT ![o].isOpen = FALSE]
       IN  IF h1[o].currentIdx = None
             THEN [heap |-> h1, exc |-> "AttributeError"]
             ELSE [heap |-> [h1 EXCEPT ![o].close_price = Some(args.close_price)],
                   exc  |-> "none"]

\* The stop-loss condition of StopLossPosition.close, in hundredths:
\* priceDrop = entry_price * (stopLossPercent / 100).
StopLossTriggered(pos, price) ==
  LET drop100 == pos.entry_price * pos.stopLossPercent[1]
  IN  \/ price * 100 <= pos.entry_price * 100 - drop100 /\ pos.orderType = "long"
      \/ price * 100 >= pos.entry_price * 100 + drop100 /\ pos.orderType = "short"

\* StopLossPosition.close(close_price=None): calls super().close() with no
\* argument when the stop-loss condition holds.
StopLossPosition_close(h, o, args) ==
  IF ~Binds(args, {}, {"close_price"})
    THEN [heap |-> h, exc |-> "TypeError"]
  ELSE IF "close_price" \notin DOMAIN args \/ args.close_price <= 0
    THEN [heap |-> h, exc |-> "InvalidClosePrice"]
  ELSE IF StopLossTriggered(h[o], args.close_price)
    THEN Position_close(h, o, NoArgs)
  ELSE [heap |-> h, exc |-> "none"]

\* pos.close(...) and pos.forceClose(...) dispatch on the object's class;
\* StopLossPosition.forceClose forwards to Position.forceClose.
Close(h, o, args) ==
  IF h[o].cls = "StopLossPosition"
    THEN StopLossPosition_close(h, o, args)
    ELSE Position_close(h, o, args)

ForceClose(h, o, args) == Position_forceClose(h, o, args)

\* ------------------------------------------------------------- PositionHub

Result(h, ps, len, exc) ==
  [heap |-> h, positions |-> ps, length |-> len, exc |-> exc]

\* PositionHub.checkConsistency
checkConsistency(ps, len) ==
  IF len = 0 THEN "none"
  ELSE IF len # Len(ps) THEN "LedgerCorrupt"
  ELSE "none"

\* closeLatestPosition without the test for an empty ledger: positions[-1]
\* of an empty list raises IndexError.
closeLatestPosition_NoEmptyCheck(h, ps, len, args) ==
  IF ~Binds(args, {"close_price"}, {"close_price"})
    THEN Result(h, ps, len, "TypeError")
  ELSE IF Len(ps) = 0
    THEN Result(h, ps, len, "IndexError")
  ELSE LET latest == ps[Len(ps)]
       IN  IF h[latest].isOpen
             THEN LET r == Close(h, latest, [close_price |-> args.close_price])
                  IN  Result(r.heap, ps, len, r.exc)
             ELSE Result(h, ps, len, "none")

\* PositionHub.closeLatestPosition(close_price)
closeLatestPosition(h, ps, len, args) ==
  IF ~Binds(args, {"close_price"}, {"close_price"})
    THEN Result(h, ps, len, "TypeError")
  ELSE IF Len(ps) = 0
    THEN Result(h, ps, len, "EmptyLedger")
  ELSE LET latest == ps[Len(ps)]
       IN  IF h[latest].isOpen
             THEN LET r == Close(h, latest, [close_price |-> args.close_price])
                  IN  Result(r.heap, ps, len, r.exc)
             ELSE Result(h, ps, len, "none")

\* AppendPosition with the increment of length forgotten.
AppendPosition_NoIncrement(h, ps, len, o) ==
  LET ps1 == Append(ps, o)
      c   == checkConsistency(ps1, len)
  IN  Result(h, ps1, len, c)

\* The tail shared by openNewPosition and openPositionObject:
\* positions.append(position); checkConsistency(); length += 1
AppendPosition(h, ps, len, o) ==
  LET ps1 == Append(ps, o)
      c   == checkConsistency(ps1, len)
  IN  IF c # "none" THEN Result(h, ps1, len, c)
      ELSE Result(h, ps1, len + 1, "none")

\* openPositionObject with the close of the existing position left out.
openPositionObject_NoRollover(h, ps, len, isPosition, o) ==
  IF ~isPosition
    THEN Result(h, ps, len, "NotAPosition")
    ELSE AppendPosition(h, ps, len, o)

\* PositionHub.openPositionObject(position); isPosition is the isinstance test.
openPositionObject(h, ps, len, isPosition, o) ==
  IF ~isPosition
    THEN Result(h, ps, len, "NotAPosition")
  ELSE LET r == IF len >= 1 THEN closeLatestPosition(h, ps, len, NoArgs)
                            ELSE Result(h, ps, len, "none")
       IN  IF r.exc # "none" THEN r
           ELSE AppendPosition(r.heap, r.positions, r.length, o)

\* openNewPosition without the test of the amount against SMALLEST_INVEST.
openNewPosition_NoAmountCheck(h, ps, len, args) ==
  IF "amount" \notin DOMAIN args
    THEN Result(h, ps, len, "TypeError")
  ELSE
    LET r == IF len >= 1 THEN closeLatestPosition(h, ps, len, NoArgs)
                         ELSE Result(h, ps, len, "none")
        ctor == Position_init([amount |-> args.amount, currentIdx |-> 0])
    IN  IF r.exc # "none" THEN r
        ELSE IF ctor.exc # "none" THEN Result(r.heap, r.positions, r.length, ctor.exc)
        ELSE AppendPosition(Append(r.heap, ctor.obj[1]), r.positions, r.length,
                            Len(r.heap) + 1)

\* PositionHub.openNewPosition(amount, timeFrame=None, currentIdx=0,
\*                             position_type=BASIC, **kwargs)
openNewPosition(h, ps, len, args) ==
  IF "amount" \notin DOMAIN args
    THEN Result(h, ps, len, "TypeError")
  ELSE IF args.amount < SMALLEST_INVEST
    THEN Result(h, ps, len, "TooSmall")
  ELSE
    LET r == IF len >= 1 THEN closeLatestPosition(h, ps, len, NoArgs)
                         ELSE Result(h, ps, len, "none")
        ptype == IF "position_type" \in DOMAIN args THEN args.position_type ELSE "basic"
        ctor == IF ptype = "stop_loss"
                  THEN StopLossPosition_init(
                         [amount |-> args.amount,
                          stopLossPercent |->
                            IF "stopLossPercent" \in DOMAIN args
                              THEN args.stopLossPercent ELSE 5,
                          currentIdx |-> 0])
                  ELSE Position_init([amount |-> args.amount, currentIdx |-> 0])
    IN  IF r.exc # "none" THEN r
        ELSE IF ctor.exc # "none" THEN Result(r.heap, r.positions, r.length, ctor.exc)
        ELSE AppendPosition(Append(r.heap, ctor.obj[1]), r.positions, r.length,
                            Len(r.heap) + 1)

\* ------------------------------------------------------ PositionManagement

\* Data.getDataAtIndex(index), index counted from 0
IndexInRange(index) == index >= 0 /\ index < Len(Bars)
ClosingPriceAt(index) == Bars[index + 1]

\* The loop of closeAllPositionsOnCondition from ledger entry i on: an open
\* position of positionType STOP_LOSS is asked to close(currentPrice=...) at
\* the bar its own currentIdx attribute names.
RECURSIVE ConditionLoop(_, _, _)
ConditionLoop(h, ps, i) ==
  IF i > Len(ps) THEN [heap |-> h, exc |-> "none"]
  ELSE
    LET o == ps[i]
    IN  IF h[o].positionType = "stop_loss" /\ h[o].isOpen
          THEN IF h[o].currentIdx = None
                 THEN [heap |-> h, exc |-> "AttributeError"]
               ELSE IF ~IndexInRange(h[o].currentIdx[1])
                 THEN [heap |-> h, exc |-> "IndexError"]
               ELSE LET r == Close(h, o,
                               [currentPrice |-> ClosingPriceAt(h[o].currentIdx[1])])
                    IN  IF r.exc # "none" THEN r
                        ELSE ConditionLoop(r.heap, ps, i + 1)
          ELSE ConditionLoop(h, ps, i + 1)

\* PositionManagement.closeAllPositionsOnCondition(): declares no parameter
closeAllPositionsOnCondition(h, ps, args) ==
  IF ~Binds(args, {}, {})
    THEN [heap |-> h, exc |-> "TypeError"]
    ELSE ConditionLoop(h, ps, 1)

\* The loop of closeAllRemainingOpenPositions from ledger entry i on:
\* pos.forceClose() with no argument.
RECURSIVE RemainingLoop(_, _, _)
RemainingLoop(h, ps, i) ==
  IF i > Len(ps) THEN [heap |-> h, exc |-> "none"]
  ELSE LET r == ForceClose(h, ps[i], NoArgs)
       IN  IF r.exc # "none" THEN r
           ELSE RemainingLoop(r.heap, ps, i + 1)

\* PositionManagement.closeAllRemainingOpenPositions(): declares no parameter
closeAllRemainingOpenPositions(h, ps, args) ==
  IF ~Binds(args, {}, {})
    THEN [heap |-> h, exc |-> "TypeError"]
    ELSE RemainingLoop(h, ps, 1)

\* The profit evaluate() computes for one position, in thousandths of a
\* hundredth (amount in thousandths, 1 - tax_rate in percent).
Profit(pos, tax) ==
  IF pos.orderType = "long"
    THEN (pos.close_price[1] - pos.entry_price) * pos.amount * (100 - tax)
  ELSE IF pos.orderType = "short"
    THEN (pos.entry_price - pos.close_price[1]) * pos.amount * (100 - tax)
  ELSE 0

\* The loop of evaluate() from ledger entry i on; acc is profitLossPerTick.
\* Subtracting with a close_price of None raises TypeError.
RECURSIVE EvaluateLoop(_, _, _, _, _)
EvaluateLoop(h, ps, tax, i, acc) ==
  IF i > Len(ps) THEN [ret |-> acc, exc |-> "none"]
  ELSE LET pos == h[ps[i]]
       IN  IF pos.orderType \in {"long", "short"} /\ pos.close_price = None
             THEN [ret |-> <<>>, exc |-> "TypeError"]
             ELSE EvaluateLoop(h, ps, tax, i + 1, Append(acc, Profit(pos, tax)))

\* PositionManagement.evaluate()
evaluate(h, ps, tax) == EvaluateLoop(h, ps, tax, 1, <<>>)

\* ------------------------------------------------------- detect_structure

\* The locals with a candidate already set before the first row is read.
DetectorInit_WithCandidate ==
  /\ df = <<>>
  /\ iNext = 0
  /\ state = "looking_high"
  /\ run_color = None
  /\ run_len = 0
  /\ candidate = Some([time |-> 0, price |-> 0])
  /\ structure = <<>>
  /\ picked = NoArgs

\* The locals of detect_structure before its loop starts.
DetectorInit ==
  /\ df = <<>>
  /\ iNext = 0
  /\ state = "looking_high"
  /\ run_color = None
  /\ run_len = 0
  /\ candidate = None
  /\ structure = <<>>
  /\ picked = NoArgs

MaxBars == 13

\* The rows a bar source may deliver: open and close give the color (equal open
\* and close included), high and low vary independently.
BarSet ==
  {[open |-> oc[1], close |-> oc[2], high |-> h, low |-> l] :
     oc \in {<<5, 6>>, <<6, 5>>}, h \in {7, 8}, l \in {3, 4}}
  \cup {[open |-> 5, close |-> 5, high |-> 7, low |-> 4]}

\* df.iloc[k], where d holds the last Len(d) of the n rows read so far.  The
\* time of a row (its label in df.index) is its position: a bar source
\* delivers one row per time step, in order.
\* A negative position counts from the end of df, as iloc does.
Row(d, n, k) ==
  LET j == IF k < 0 THEN n + k ELSE k
  IN  d[j - (n - Len(d)) + 1]

\* color = 'green' if row['close'] > row['open'] else 'red'
Color(row) == IF row.close > row.open THEN "green" ELSE "red"

\* find_max_high giving the time of the last row of the window with the
\* highest high of the window.
find_max_high_LastTime(d, n, idxs) ==
  LET m == CHOOSE h \in {Row(d, n, k).high : k \in idxs} :
             \A k \in idxs : Row(d, n, k).high <= h
      t == CHOOSE k \in idxs : \A j \in idxs : j <= k
  IN  [time |-> t, price |-> m]

\* find_max_high(df, idxs): idxmax gives the first row of the highest high
find_max_high(d, n, idxs) ==
  LET m == CHOOSE h \in {Row(d, n, k).high : k \in idxs} :
             \A k \in idxs : Row(d, n, k).high <= h
      t == CHOOSE k \in idxs :
             /\ Row(d, n, k).high = m
             /\ \A j \in idxs : Row(d, n, j).high = m => k <= j
  IN  [time |-> t, price |-> m]

\* find_min_low(df, idxs): idxmin gives the first row of the lowest low
find_min_low(d, n, idxs) ==
  LET m == CHOOSE l \in {Row(d, n, k).low : k \in idxs} :
             \A k \in idxs : Row(d, n, k).low >= l
      t == CHOOSE k \in idxs :
             /\ Row(d, n, k).low = m
             /\ \A j \in idxs : Row(d, n, j).low = m => k <= j
  IN  [time |-> t, price |-> m]

\* The run update with the count carried over a change of color.
RunUpdate_NeverRestarts(color, rc, rl) ==
  [run_color |-> Some(color), run_len |-> rl + 1]

\* Step 1 of the loop body: the run length, given the color of row i.
RunUpdate(color, rc, rl) ==
  IF rc = Some(color)
    THEN [run_color |-> rc, run_len |-> rl + 1]
    ELSE [run_color |-> Some(color), run_len |-> 1]

\* "and i >= 2" of the transitions out of looking_high and looking_low
CanStart_FromRowOne(k) == k >= 1

CanStart(k) == k >= 2

\* A confirmed Strong High that leaves the detector looking for a high again.
ConfirmHigh_StayHigh(cand, struct) ==
  [state |-> "looking_high", run_len |-> 0, candidate |-> None,
   structure |-> Append(struct,
     [type |-> "Strong High", time |-> cand[1].time, price |-> cand[1].price])]

\* structure.append(('Strong High', ...)); candidate, run_len = None, 0;
\* state = 'looking_low'
ConfirmHigh(cand, struct) ==
  [state |-> "looking_low", run_len |-> 0, candidate |-> None,
   structure |-> Append(struct,
     [type |-> "Strong High", time |-> cand[1].time, price |-> cand[1].price])]

\* A confirmed Strong Low that leaves the detector looking for a low again.
ConfirmLow_StayLow(cand, struct) ==
  [state |-> "looking_low", run_len |-> 0, candidate |-> None,
   structure |-> Append(struct,
     [type |-> "Strong Low", time |-> cand[1].time, price |-> cand[1].price])]

\* structure.append(('Strong Low', ...)); candidate, run_len = None, 0;
\* state = 'looking_high'
ConfirmLow(cand, struct) ==
  [state |-> "looking_high", run_len |-> 0, candidate |-> None,
   structure |-> Append(struct,
     [type |-> "Strong Low", time |-> cand[1].time, price |-> cand[1].price])]

\* The chain with the candidate recomputed at every run of two of the
\* awaited color, whether or not the new extreme beats the old one.
Transition_AlwaysRecomputes(d, n, k, st, color, rl, cand, struct) ==
  LET same == [state |-> st, run_len |-> rl, candidate |-> cand, structure |-> struct]
      win  == {k - 2, k - 1, k}
  IN  IF st = "looking_high" /\ color = "red" /\ rl = 2 /\ CanStart(k)
        THEN [same EXCEPT !.candidate = Some(find_max_high(d, n, win)),
                          !.state = "await_high"]
      ELSE IF st = "await_high"
        THEN IF color = "green" /\ rl = 2
               THEN IF Row(d, n, k).high < cand[1].price
                      THEN ConfirmHigh(cand, struct)
                      ELSE LET new_wh == find_max_high(d, n, win)
                           IN  IF new_wh.price > cand[1].price
                                 THEN [same EXCEPT !.candidate = Some(new_wh)]
                                 ELSE same
             ELSE IF color = "red" /\ rl = 2
               THEN [same EXCEPT !.candidate = Some(find_max_high(d, n, win))]
             ELSE same
      ELSE IF st = "looking_low" /\ color = "green" /\ rl = 2 /\ CanStart(k)
        THEN [same EXCEPT !.candidate = Some(find_min_low(d, n, win)),
                          !.state = "await_low"]
      ELSE IF st = "await_low"
        THEN IF color = "red" /\ rl = 2
               THEN IF Row(d, n, k).low > cand[1].price
                      THEN ConfirmLow(cand, struct)
                      ELSE LET new_wl == find_min_low(d, n, win)
                           IN  IF new_wl.price < cand[1].price
                                 THEN [same EXCEPT !.candidate = Some(new_wl)]
                                 ELSE same
             ELSE IF color = "green" /\ rl = 2
               THEN [same EXCEPT !.candidate = Some(find_min_low(d, n, win))]
             ELSE same
      ELSE same

\* Step 2 of the loop body: the if/elif chain on state, for row k of color
\* color, with the run length rl of step 1.
Transition(d, n, k, st, color, rl, cand, struct) ==
  LET same == [state |-> st, run_len |-> rl, candidate |-> cand, structure |-> struct]
      win  == {k - 2, k - 1, k}
  IN  IF st = "looking_high" /\ color = "red" /\ rl = 2 /\ CanStart(k)
        THEN [same EXCEPT !.candidate = Some(find_max_high(d, n, win)),
                          !.state = "await_high"]
      ELSE IF st = "await_high"
        THEN IF color = "green" /\ rl = 2
               THEN IF Row(d, n, k).high < cand[1].price
                      THEN ConfirmHigh(cand, struct)
                      ELSE LET new_wh == find_max_high(d, n, win)
                           IN  IF new_wh.price > cand[1].price
                                 THEN [same EXCEPT !.candidate = Some(new_wh)]
                                 ELSE same
             ELSE IF color = "red" /\ rl = 2
               THEN LET new_wh == find_max_high(d, n, win)
                    IN  IF new_wh.price > cand[1].price
                          THEN [same EXCEPT !.candidate = Some(new_wh)]
                          ELSE same
             ELSE same
      ELSE IF st = "looking_low" /\ color = "green" /\ rl = 2 /\ CanStart(k)
        THEN [same EXCEPT !.candidate = Some(find_min_low(d, n, win)),
                          !.state = "await_low"]
      ELSE IF st = "await_low"
        THEN IF color = "red" /\ rl = 2
               THEN IF Row(d, n, k).low > cand[1].price
                      THEN ConfirmLow(cand, struct)
                      ELSE LET new_wl == find_min_low(d, n, win)
                           IN  IF new_wl.price < cand[1].price
                                 THEN [same EXCEPT !.candidate = Some(new_wl)]
                                 ELSE same
             ELSE IF color = "green" /\ rl = 2
               THEN LET new_wl == find_min_low(d, n, win)
                    IN  IF new_wl.price < cand[1].price
                          THEN [same EXCEPT !.candidate = Some(new_wl)]
                          ELSE same
             ELSE same
      ELSE same

\* The loop of detect_structure from row k on, over the whole frame rows;
\* loc holds the locals.
RECURSIVE DetectLoop(_, _, _)
DetectLoop(rows, k, loc) ==
  IF k >= Len(rows) THEN loc
  ELSE
    LET c  == Color(rows[k + 1])
        ru == RunUpdate(c, loc.run_color, loc.run_len)
        tr == Transition(rows, Len(rows), k, loc.state, c, ru.run_len,
                         loc.candidate, loc.structure)
    IN  DetectLoop(rows, k + 1,
                   [state |-> tr.state, run_color |-> ru.run_color,
                    run_len |-> tr.run_len, candidate |-> tr.candidate,
                    structure |-> tr.structure])

\* detect_structure(df): the locals when the loop has ended; it returns
\* structure.
detect_structure(rows) ==
  DetectLoop(rows, 0,
             [state |-> "looking_high", run_color |-> None, run_len |-> 0,
              candidate |-> None, structure |-> <<>>])

\* The rows of df that detect_structure still reads after row k: k-1 and k
\* (the next iteration reads rows k-1, k and k+1).
Tail2(d) == IF Len(d) > 2 THEN SubSeq(d, Len(d) - 1, Len(d)) ELSE d

\* The times candidate and structure name.
NamedTimes(cand, struct) ==
  {struct[j].time : j \in 1..Len(struct)} \cup
  (IF cand = None THEN {} ELSE {cand[1].time})

\* ------------------------------------------------- BasicAll.py state machine

MaxBasicBars == 8

\* looking_high with the later of two rows chosen when their highs are equal.
HigherOfTwo_LaterOnTie(prev, cur, k) ==
  IF prev.high > cur.high
    THEN [time |-> k - 1, price |-> prev.high]
    ELSE [time |-> k, price |-> cur.high]

\* if prev_row['high'] >= row['high']: cand = prev else: cand = row
HigherOfTwo(prev, cur, k) ==
  IF prev.high >= cur.high
    THEN [time |-> k - 1, price |-> prev.high]
    ELSE [time |-> k, price |-> cur.high]

\* if prev_row['low'] <= row['low']: cand = prev else: cand = row
LowerOfTwo(prev, cur, k) ==
  IF prev.low <= cur.low
    THEN [time |-> k - 1, price |-> prev.low]
    ELSE [time |-> k, price |-> cur.low]

\* The four tests of the loop body of BasicAll.py for row k (cur) of color
\* color, after the run update; prev is row k - 1.  cand_time and cand_price
\* keep their values after a point is appended.
BasicTransition(prev, cur, k, st, color, rl, cand, struct) ==
  LET same == [state |-> st, candidate |-> cand, structure |-> struct]
      point(type) == [type |-> type, time |-> cand[1].time, price |-> cand[1].price]
  IN  IF st = "looking_high" /\ color = "red" /\ rl = 2
        THEN [same EXCEPT !.candidate = Some(HigherOfTwo(prev, cur, k)),
                          !.state = "await_high"]
      ELSE IF st = "await_high" /\ color = "green" /\ rl = 2
        THEN [same EXCEPT !.structure = Append(struct, point("Strong High")),
                          !.state = "looking_low"]
      ELSE IF st = "looking_low" /\ color = "green" /\ rl = 2
        THEN [same EXCEPT !.candidate = Some(LowerOfTwo(prev, cur, k)),
                          !.state = "await_low"]
      ELSE IF st = "await_low" /\ color = "red" /\ rl = 2
        THEN [same EXCEPT !.structure = Append(struct, point("Strong Low")),
                          !.state = "looking_high"]
      ELSE same

\* ------------------------------------------------------------------ SMABot

MaxSeries == 4

\* Closing prices of the bars a bot is run on, and the series built from them.
BotPrices == {100, 102, 104}
PriceSeries == UNION {[1..n -> BotPrices] : n \in 0..MaxSeries}

\* window sizes calculate_sma is called with
MaxWindow == 3
SmaWindows == 1..MaxWindow

\* (short_window, long_window) pairs passed to SMABot
Windows == {<<1, 2>>, <<2, 3>>, <<2, 2>>, <<0, 2>>}

\* Bot.__init__(self, name): trade_history = [], position_hub = PositionHub().
\* No __init__ assigns position_management.
Bot_init(args) ==
  IF ~Binds(args, {"name"}, {"name"})
    THEN [exc |-> "TypeError", obj |-> None]
    ELSE [exc |-> "none",
          obj |-> Some([name |-> args.name, trade_history |-> <<>>,
                        position_management |-> None])]

\* SMABot.__init__(name, data, short_window, long_window, stop_loss_percent,
\* amount): it starts with super().__init__(name, data).
SMABot_init(args) ==
  LET base == Bot_init([name |-> args.name, data |-> args.data])
  IN  IF ~Binds(args, {"name", "data"},
                {"name", "data", "short_window", "long_window",
                 "stop_loss_percent", "amount"})
        THEN [exc |-> "TypeError", obj |-> None]
      ELSE IF base.exc # "none"
        THEN [exc |-> base.exc, obj |-> None]
      ELSE IF args.short_window >= args.long_window
        THEN [exc |-> "ValueError", obj |-> None]
      ELSE IF args.short_window <= 0 \/ args.long_window <= 0
        THEN [exc |-> "ValueError", obj |-> None]
      ELSE IF args.stop_loss_percent <= 0
        THEN [exc |-> "ValueError", obj |-> None]
      ELSE IF args.amount <= 0
        THEN [exc |-> "ValueError", obj |-> None]
      ELSE IF args.data.timeFrame = None
        THEN [exc |-> "ValueError", obj |-> None]
      ELSE [exc |-> "none",
            obj |-> Some([name |-> args.name,
                          trade_history |-> <<>>,
                          position_management |-> None,
                          short_window |-> args.short_window,
                          long_window |-> args.long_window,
                          stop_loss_percent |-> args.stop_loss_percent,
                          amount |-> args.amount,
                          timeFrame |-> args.data.timeFrame[1]])]

\* SMABot.run(): its first statement reads self.position_management.data, and
\* the next one calls data.get_closing_prices(), which no data class defines
\* (Data has getClosingPrices); b.position_management is never assigned, so
\* the first statement raises.
SMABot_run(b) ==
  IF b.position_management = None
    THEN [exc |-> "AttributeError", bot |-> b, history |-> <<>>, total |-> 0]
    ELSE [exc |-> "AttributeError", bot |-> b, history |-> <<>>, total |-> 0]

\* SMABot.reset(): self.position_management.position_hub = PositionHub(...);
\* self.trade_history = []
SMABot_reset(b) ==
  IF b.position_management = None
    THEN [exc |-> "AttributeError", bot |-> b]
    ELSE [exc |-> "none", bot |-> [b EXCEPT !.trade_history = <<>>]]

\* prices[-window:], the slice Python takes: a negative start counts from the
\* end and is clipped at the first element, a start of 0 is the whole list.
LastSlice(prices, window) ==
  LET n == Len(prices)
      start == IF window > 0
                 THEN (IF n - window < 0 THEN 0 ELSE n - window)
                 ELSE (IF 0 - window > n THEN n ELSE 0 - window)
  IN  SubSeq(prices, start + 1, n)

RECURSIVE sum(_)
sum(q) == IF q = <<>> THEN 0 ELSE q[1] + sum(Tail(q))

\* calculate_sma taking the first window prices instead of the last.
calculate_sma_FirstPrices(prices, window) ==
  IF prices = <<>> \/ Len(prices) < window
    THEN [exc |-> "none", ret |-> None]
  ELSE IF window = 0
    THEN [exc |-> "ZeroDivisionError", ret |-> None]
  ELSE [exc |-> "none",
        ret |-> Some([num |-> sum(SubSeq(prices, 1, window)), den |-> window])]

\* SMABot.calculate_sma(prices, window): None, or sum(prices[-window:]) / window
\* as the fraction num / den.  self is not read.
calculate_sma(prices, window) ==
  IF prices = <<>> \/ Len(prices) < window
    THEN [exc |-> "none", ret |-> None]
  ELSE IF window = 0
    THEN [exc |-> "ZeroDivisionError", ret |-> None]
  ELSE [exc |-> "none",
        ret |-> Some([num |-> sum(LastSlice(prices, window)), den |-> window])]

\* a > b for two averages (window sizes, the denominators, are positive)
Above(a, b) == a.num * b.den > b.num * a.den

\* What a method of the bot hands back: what it raised, the BotAction it
\* returned, the bot and its ledger afterwards.
BotResult(exc, ret, b, h, ps, len) ==
  [exc |-> exc, ret |-> ret, bot |-> b, heap |-> h, positions |-> ps, length |-> len]

\* self.position_management.position_hub: position_management is assigned by
\* no __init__, and a PositionManagement names its hub positionHub.
ReadPositionHub(b) ==
  IF b.position_management = None THEN "AttributeError"
  ELSE IF "position_hub" \notin DOMAIN b.position_management[1] THEN "AttributeError"
  ELSE "none"

\* SMABot._has_open_position()
has_open_position(b, h, ps) ==
  IF ReadPositionHub(b) # "none"
    THEN [exc |-> ReadPositionHub(b), ret |-> FALSE]
    ELSE [exc |-> "none", ret |-> \E k \in 1..Len(ps) : h[ps[k]].isOpen]

\* SMABot._open_position(current_idx, current_price): every exception raised
\* inside is caught and turned into HOLD.
open_position(b, h, ps, len, idx, price) ==
  LET has == has_open_position(b, h, ps)
      o == openNewPosition(h, ps, len,
             [entry_price |-> price, amount |-> b.amount,
              position_type |-> "stop_loss",
              stopLossPercent |-> b.stop_loss_percent])
      trade == [type |-> "BUY", idx |-> idx, price |-> price]
  IN  IF has.exc # "none" THEN BotResult("none", Some("HOLD"), b, h, ps, len)
      ELSE IF has.ret THEN BotResult("none", Some("HOLD"), b, h, ps, len)
      ELSE IF o.exc # "none"
        THEN BotResult("none", Some("HOLD"), b, o.heap, o.positions, o.length)
      ELSE BotResult("none", Some("BUY"),
                     [b EXCEPT !.trade_history = Append(@, trade)],
                     o.heap, o.positions, o.length)

\* SMABot._close_position(current_idx, current_price): every exception raised
\* inside is caught and turned into HOLD.
close_position(b, h, ps, len, idx, price) ==
  LET has == has_open_position(b, h, ps)
      c == closeLatestPosition(h, ps, len, [close_price |-> price])
      trade == [type |-> "SELL", idx |-> idx, price |-> price]
  IN  IF has.exc # "none" THEN BotResult("none", Some("HOLD"), b, h, ps, len)
      ELSE IF ~has.ret THEN BotResult("none", Some("HOLD"), b, h, ps, len)
      ELSE IF c.exc # "none"
        THEN BotResult("none", Some("HOLD"), b, c.heap, c.positions, c.length)
      ELSE BotResult("none", Some("SELL"),
                     [b EXCEPT !.trade_history = Append(@, trade)],
                     c.heap, c.positions, c.length)

\* SMABot.decide_and_trade(prices, current_idx)
decide_and_trade(b, h, ps, len, prices, idx) ==
  IF b.position_management = None
    THEN BotResult("AttributeError", None, b, h, ps, len)
  ELSE
    LET stop == closeAllPositionsOnCondition(h, ps, [current_idx |-> idx])
        short_sma == calculate_sma(prices, b.short_window)
        long_sma == calculate_sma(prices, b.long_window)
        has == has_open_position(b, stop.heap, ps)
        price == prices[Len(prices)]
    IN  IF stop.exc # "none"
          THEN BotResult(stop.exc, None, b, stop.heap, ps, len)
        ELSE IF short_sma.exc # "none"
          THEN BotResult(short_sma.exc, None, b, stop.heap, ps, len)
        ELSE IF long_sma.exc # "none"
          THEN BotResult(long_sma.exc, None, b, stop.heap, ps, len)
        ELSE IF short_sma.ret = None \/ long_sma.ret = None
          THEN BotResult("none", Some("HOLD"), b, stop.heap, ps, len)
        ELSE IF has.exc # "none"
          THEN BotResult(has.exc, None, b, stop.heap, ps, len)
        ELSE IF ~has.ret /\ Above(short_sma.ret[1], long_sma.ret[1])
          THEN open_position(b, stop.heap, ps, len, idx, price)
        ELSE IF has.ret /\ Above(long_sma.ret[1], short_sma.ret[1])
          THEN close_position(b, stop.heap, ps, len, idx, price)
        ELSE BotResult("none", Some("HOLD"), b, stop.heap, ps, len)

\* ----------------------------------------------------------------- client

Pre == [heap |-> heap, positions |-> positions, length |-> length]

Call(op, args, obj, exc) ==
  [op |-> op, args |-> args, obj |-> obj, exc |-> exc, ret |-> <<>>, pre |-> Pre]

\* PositionHub.__init__ and PositionManagement.__init__(data, tax_rate=tax)
Constructed(tax) ==
  /\ heap = <<>>
  /\ positions = <<>>
  /\ length = 0
  /\ tax_rate = tax
  /\ opens = <<>>
  /\ bot = None
  /\ DetectorInit
  /\ last = [op |-> "init", args |-> NoArgs, obj |-> 0, exc |-> "none",
             ret |-> <<>>,
             pre |-> [heap |-> <<>>, positions |-> <<>>, length |-> 0]]

Init == Constructed(0)

InitManagement == \E tax \in TaxRates : Constructed(tax)

\* position = Position(entry_price=e, amount=a, timeFrame=..., orderType=ot)
NewPosition ==
  \E e \in EntryPrices, a \in Amounts, ot \in OrderTypes :
    LET args == [entry_price |-> e, amount |-> a, orderType |-> ot]
        r == Position_init(args)
    IN  /\ r.exc = "none" => Len(heap) < MaxObjects
        /\ heap' = IF r.exc = "none" THEN Append(heap, r.obj[1]) ELSE heap
        /\ last' = Call("Position", args,
                        IF r.exc = "none" THEN Len(heap) + 1 ELSE 0, r.exc)
        /\ UNCHANGED <<positions, length, tax_rate, opens>>
        /\ UNCHANGED <<bot, detVars>>

\* The run of consecutive open calls with valid arguments that started on an
\* empty hub: what each of them raised.  Any other call on the hub or on one of
\* its positions ends the run.
OpensAfterOpen(exc) ==
  IF (opens = <<>> /\ positions = <<>> /\ length = 0) \/ Len(opens) \in {1, 2}
    THEN Append(opens, exc)
    ELSE <<>>

\* position = StopLossPosition(amount=a, timeFrame=..., stopLossPercent=pct,
\*                             orderType=ot), with or without entry_price=e
NewStopLossPosition ==
  \E e \in {100}, a \in Amounts, pct \in StopLossPercents,
     ot \in OrderTypes, withEntry \in BOOLEAN :
    LET args == IF withEntry
                  THEN [entry_price |-> e, amount |-> a, stopLossPercent |-> pct,
                        orderType |-> ot]
                  ELSE [amount |-> a, stopLossPercent |-> pct, orderType |-> ot]
        r == StopLossPosition_init(args)
    IN  /\ r.exc = "none" => Len(heap) < MaxObjects
        /\ heap' = IF r.exc = "none" THEN Append(heap, r.obj[1]) ELSE heap
        /\ last' = Call("StopLossPosition", args,
                        IF r.exc = "none" THEN Len(heap) + 1 ELSE 0, r.exc)
        /\ UNCHANGED <<positions, length, tax_rate, opens>>
        /\ UNCHANGED <<bot, detVars>>

InLedger(o) == \E i \in 1..Len(positions) : positions[i] = o

\* position.close(close_price=p) on an object the client holds
PositionClose ==
  \E o \in 1..Len(heap), p \in ClosePrices :
    LET args == [close_price |-> p]
        r == Close(heap, o, args)
    IN  /\ heap' = r.heap
        /\ last' = Call("close", args, o, r.exc)
        /\ opens' = IF InLedger(o) THEN <<>> ELSE opens
        /\ UNCHANGED <<positions, length, tax_rate>>
        /\ UNCHANGED <<bot, detVars>>

\* position.forceClose(close_price=p) on an object the client holds
PositionForceClose ==
  \E o \in 1..Len(heap), p \in ClosePrices :
    LET args == [close_price |-> p]
        r == ForceClose(heap, o, args)
    IN  /\ heap' = r.heap
        /\ last' = Call("forceClose", args, o, r.exc)
        /\ opens' = IF InLedger(o) THEN <<>> ELSE opens
        /\ UNCHANGED <<positions, length, tax_rate>>
        /\ UNCHANGED <<bot, detVars>>

\* hub.openNewPosition(amount=a, position_type=pt, entry_price=e, stopLossPercent=pct)
HubOpenNewPosition ==
  \E a \in HubAmounts, pt \in PositionTypes, e \in {100}, pct \in {10},
     withEntry \in BOOLEAN :
    LET base == [amount |-> a, position_type |-> pt, stopLossPercent |-> pct]
        args == IF withEntry
                  THEN [amount |-> a, position_type |-> pt, stopLossPercent |-> pct,
                        entry_price |-> e]
                  ELSE base
        r == openNewPosition(heap, positions, length, args)
    IN  /\ Len(r.heap) <= MaxObjects
        /\ heap' = r.heap
        /\ positions' = r.positions
        /\ length' = r.length
        /\ last' = Call("openNewPosition", args, 0, r.exc)
        /\ opens' = IF a >= SMALLEST_INVEST THEN OpensAfterOpen(r.exc) ELSE <<>>
        /\ UNCHANGED tax_rate
        /\ UNCHANGED <<bot, detVars>>

\* hub.openPositionObject(position) with an object the client holds
HubOpenPositionObject ==
  \E o \in 1..Len(heap) :
    LET r == openPositionObject(heap, positions, length, TRUE, o)
    IN  /\ heap' = r.heap
        /\ positions' = r.positions
        /\ length' = r.length
        /\ last' = Call("openPositionObject", NoArgs, o, r.exc)
        /\ opens' = OpensAfterOpen(r.exc)
        /\ UNCHANGED tax_rate
        /\ UNCHANGED <<bot, detVars>>

\* hub.openPositionObject("not a position")
HubOpenNonPosition ==
  LET r == openPositionObject(heap, positions, length, FALSE, 0)
  IN  /\ heap' = r.heap
      /\ positions' = r.positions
      /\ length' = r.length
      /\ last' = Call("openPositionObject", NoArgs, 0, r.exc)
      /\ opens' = <<>>
      /\ UNCHANGED tax_rate
      /\ UNCHANGED <<bot, detVars>>

\* hub.closeLatestPosition(close_price=p)
HubCloseLatestPosition ==
  \E p \in ClosePrices :
    LET args == [close_price |-> p]
        r == closeLatestPosition(heap, positions, length, args)
    IN  /\ heap' = r.heap
        /\ positions' = r.positions
        /\ length' = r.length
        /\ last' = Call("closeLatestPosition", args, 0, r.exc)
        /\ opens' = <<>>
        /\ UNCHANGED tax_rate
        /\ UNCHANGED <<bot, detVars>>

\* hub.checkConsistency()
HubCheckConsistency ==
  /\ last' = Call("checkConsistency", NoArgs, 0, checkConsistency(positions, length))
  /\ UNCHANGED <<heap, positions, length, tax_rate, opens>>
  /\ UNCHANGED <<bot, detVars>>

\* hub.positions.append(pos), as the tests fill a ledger by hand
HubAppendDirect ==
  \E o \in 1..Len(heap) :
    /\ Len(positions) < MaxLedger
    /\ positions' = Append(positions, o)
    /\ last' = Call("positions.append", NoArgs, o, "none")
    /\ opens' = <<>>
    /\ UNCHANGED <<heap, length, tax_rate>>
    /\ UNCHANGED <<bot, detVars>>

\* hub.length += 1, as the tests do after appending by hand
HubIncrementLength ==
  /\ length < MaxLedger
  /\ length' = length + 1
  /\ last' = Call("length += 1", NoArgs, 0, "none")
  /\ opens' = <<>>
  /\ UNCHANGED <<heap, positions, tax_rate>>
  /\ UNCHANGED <<bot, detVars>>

\* hub.length = 999, as test_position_hub_check_consistency corrupts the hub
HubSetLength ==
  /\ length' = 999
  /\ last' = Call("length = 999", NoArgs, 0, "none")
  /\ opens' = <<>>
  /\ UNCHANGED <<heap, positions, tax_rate>>
  /\ UNCHANGED <<bot, detVars>>

\* management.closeAllPositionsOnCondition(current_idx), as SMABot and the
\* tests call it, or with no argument
ManagementCloseOnCondition ==
  \E withIdx \in BOOLEAN, idx \in 0..(Len(Bars) - 1) :
    LET args == IF withIdx THEN [current_idx |-> idx] ELSE NoArgs
        r == closeAllPositionsOnCondition(heap, positions, args)
    IN  /\ withIdx \/ idx = 0
        /\ heap' = r.heap
        /\ last' = Call("closeAllPositionsOnCondition", args, 0, r.exc)
        /\ opens' = <<>>
        /\ UNCHANGED <<positions, length, tax_rate>>
        /\ UNCHANGED <<bot, detVars>>

\* management.closeAllRemainingOpenPositions(current_idx), as SMABot.run and
\* the tests call it, or with no argument
ManagementCloseRemaining ==
  \E withIdx \in BOOLEAN, idx \in 0..(Len(Bars) - 1) :
    LET args == IF withIdx THEN [current_idx |-> idx] ELSE NoArgs
        r == closeAllRemainingOpenPositions(heap, positions, args)
    IN  /\ withIdx \/ idx = 0
        /\ heap' = r.heap
        /\ last' = Call("closeAllRemainingOpenPositions", args, 0, r.exc)
        /\ opens' = <<>>
        /\ UNCHANGED <<positions, length, tax_rate>>
        /\ UNCHANGED <<bot, detVars>>

\* management.evaluate()
ManagementEvaluate ==
  LET r == evaluate(heap, positions, tax_rate)
  IN  /\ last' = [Call("evaluate", NoArgs, 0, r.exc) EXCEPT !.ret = r.ret]
      /\ UNCHANGED <<heap, positions, length, tax_rate, opens>>
      /\ UNCHANGED <<bot, detVars>>

\* The stop-loss tests of TestStopLossPosition: construct a StopLossPosition
\* as the tests do (with entry_price) or as its signature asks (without), then
\* call close or forceClose on it.  A raising constructor ends the test.
ScenarioPrices == {88, 95, 112}

TestStopLossClose ==
  \E ot \in OrderTypes, p \in ScenarioPrices, withEntry \in BOOLEAN,
     method \in {"close", "forceClose"} :
    LET ctor == IF withEntry
                  THEN [entry_price |-> 100, amount |-> 1000,
                        stopLossPercent |-> 10, orderType |-> ot]
                  ELSE [amount |-> 1000, stopLossPercent |-> 10, orderType |-> ot]
        args == [ctor |-> ctor, entry_price |-> 100, stopLossPercent |-> 10,
                 orderType |-> ot, close_price |-> p]
        c  == StopLossPosition_init(ctor)
        h1 == IF c.exc = "none" THEN Append(heap, c.obj[1]) ELSE heap
        o  == Len(h1)
        r  == IF c.exc # "none" THEN [heap |-> heap, exc |-> c.exc]
              ELSE IF method = "close" THEN Close(h1, o, [close_price |-> p])
              ELSE ForceClose(h1, o, [close_price |-> p])
    IN  /\ c.exc = "none" => Len(heap) < MaxObjects
        /\ heap' = r.heap
        /\ last' = Call(IF method = "close" THEN "StopLossPosition.close"
                                            ELSE "StopLossPosition.forceClose",
                        args, IF c.exc = "none" THEN o ELSE 0, r.exc)
        /\ UNCHANGED <<positions, length, tax_rate, opens>>
        /\ UNCHANGED <<bot, detVars>>

\* test_position_management_close_positions_on_condition: on a fresh
\* PositionManagement, construct a StopLossPosition, put it into the ledger
\* (positions.append(pos); length = 1) and call
\* closeAllPositionsOnCondition(current_idx).
TestCloseOnCondition ==
  \E ot \in OrderTypes, idx \in 0..(Len(Bars) - 1) :
    LET ctor == [entry_price |-> 100, amount |-> 1000,
                 stopLossPercent |-> 10, orderType |-> ot]
        args == [ctor |-> ctor, entry_price |-> 100, stopLossPercent |-> 10,
                 orderType |-> ot, current_idx |-> idx]
        c  == StopLossPosition_init(ctor)
        h1 == IF c.exc = "none" THEN Append(heap, c.obj[1]) ELSE heap
        o  == Len(h1)
        r  == IF c.exc # "none" THEN [heap |-> heap, exc |-> c.exc]
              ELSE closeAllPositionsOnCondition(h1, <<o>>, [current_idx |-> idx])
    IN  /\ positions = <<>> /\ length = 0
        /\ c.exc = "none" => Len(heap) < MaxObjects
        /\ heap' = r.heap
        /\ positions' = IF c.exc = "none" THEN <<o>> ELSE positions
        /\ length' = IF c.exc = "none" THEN 1 ELSE length
        /\ last' = Call("test_close_positions_on_condition", args,
                        IF c.exc = "none" THEN o ELSE 0, r.exc)
        /\ opens' = <<>>
        /\ UNCHANGED tax_rate
        /\ UNCHANGED <<bot, detVars>>

\* The arguments the bot tests construct an SMABot with.
BotArgs(prices, w) ==
  [name |-> "TestBot",
   data |-> [prices |-> prices, timeFrame |-> Some("ONEDAY")],
   short_window |-> w[1], long_window |-> w[2],
   stop_loss_percent |-> 5, amount |-> 1000]

\* The hub of a bot: Bot.__init__ gives a constructed bot a fresh PositionHub.
BotHub(ctor) ==
  IF ctor.exc = "none"
    THEN /\ heap' = <<>> /\ positions' = <<>> /\ length' = 0
    ELSE UNCHANGED <<heap, positions, length>>

\* The run tests of test_sma_bot.py: bot = SMABot(...), then bot.run().
\* A raising constructor ends the test.
TestBotRun ==
  \E prices \in PriceSeries, w \in Windows :
    LET args == BotArgs(prices, w)
        c == SMABot_init(args)
        r == IF c.exc # "none"
               THEN [exc |-> c.exc, bot |-> None]
               ELSE LET x == SMABot_run(c.obj[1])
                    IN  [exc |-> x.exc, bot |-> Some(x.bot),
                         history |-> x.history, total |-> x.total]
    IN  /\ bot' = r.bot
        /\ BotHub(c)
        /\ last' = [Call("run", args, 0, r.exc) EXCEPT
                      !.ret = IF r.exc = "none"
                                THEN <<[history |-> r.history, total |-> r.total]>>
                                ELSE <<>>]
        /\ UNCHANGED <<tax_rate, opens, detVars>>

\* test_bot_run_resets_state: bot = SMABot(...), bot.run(), bot.reset(),
\* bot.run().  The first call that raises ends the test.
TestBotRunResetRun ==
  \E prices \in PriceSeries, w \in Windows :
    LET args == BotArgs(prices, w)
        c  == SMABot_init(args)
        r1 == SMABot_run(c.obj[1])
        rs == SMABot_reset(r1.bot)
        r2 == SMABot_run(rs.bot)
        exc == IF c.exc # "none" THEN c.exc
               ELSE IF r1.exc # "none" THEN r1.exc
               ELSE IF rs.exc # "none" THEN rs.exc
               ELSE r2.exc
    IN  /\ bot' = IF c.exc # "none" THEN None
                  ELSE IF r1.exc # "none" THEN Some(r1.bot)
                  ELSE IF rs.exc # "none" THEN Some(rs.bot)
                  ELSE Some(r2.bot)
        /\ BotHub(c)
        /\ last' = [Call("run_reset_run", args, 0, exc) EXCEPT
                      !.ret = IF exc = "none"
                                THEN <<[first |-> r1.history, second |-> r2.history]>>
                                ELSE <<>>]
        /\ UNCHANGED <<tax_rate, opens, detVars>>

\* The decision tests of test_sma_bot.py: the fixture builds bot = SMABot(...),
\* then bot.decide_and_trade(prices, current_idx=len(prices) - 1).  A raising
\* constructor ends the test.
TestDecideAndTrade ==
  \E prices \in PriceSeries, w \in Windows :
    LET args == BotArgs(prices, w)
        c == SMABot_init(args)
        idx == Len(prices) - 1
        r == IF c.exc # "none"
               THEN BotResult(c.exc, None, None, heap, positions, length)
               ELSE LET x == decide_and_trade(c.obj[1], <<>>, <<>>, 0, prices, idx)
                    IN  [x EXCEPT !.bot = Some(x.bot)]
    IN  /\ bot' = r.bot
        /\ heap' = r.heap
        /\ positions' = r.positions
        /\ length' = r.length
        /\ last' = [Call("decide_and_trade", args, 0, r.exc) EXCEPT !.ret = r.ret]
        /\ UNCHANGED <<tax_rate, opens, detVars>>

\* SMABot.calculate_sma(prices, window) applied to a list of closing prices
CalculateSma ==
  \E prices \in PriceSeries, window \in SmaWindows :
    LET r == calculate_sma(prices, window)
    IN  /\ last' = [Call("calculate_sma", [prices |-> prices, window |-> window],
                         0, r.exc) EXCEPT !.ret = r.ret]
        /\ UNCHANGED <<heap, positions, length, tax_rate, opens, bot, detVars>>

\* One iteration of the loop of detect_structure: row i = iNext of df, as the
\* bar source delivered it.
DetectorStep ==
  \E row \in BarSet :
    LET k   == iNext
        d   == Append(df, row)
        n   == k + 1
        c   == Color(row)
        ru  == RunUpdate(c, run_color, run_len)
        tr  == Transition(d, n, k, state, c, ru.run_len, candidate, structure)
        old == DOMAIN picked
    IN  /\ iNext < MaxBars
        /\ iNext' = k + 1
        /\ df' = Tail2(d)
        /\ run_color' = ru.run_color
        /\ run_len' = tr.run_len
        /\ state' = tr.state
        /\ candidate' = tr.candidate
        /\ structure' = tr.structure
        /\ picked' = [t \in NamedTimes(tr.candidate, tr.structure) |->
                        IF t \in old THEN picked[t]
                        ELSE IF t \in {k - 2, k - 1, k} /\ t >= 0
                          THEN [high |-> Row(d, n, t).high, low |-> Row(d, n, t).low]
                        ELSE [high |-> 0, low |-> 0]]
        /\ UNCHANGED <<posVars, bot>>

\* One iteration of the loop of BasicAll.py: row i = iNext of df.  The rows
\* kept are row i - 1 and row i.
BasicAllStep ==
  \E row \in BarSet :
    LET k  == iNext
        d  == Append(df, row)
        c  == Color(row)
        ru == RunUpdate(c, run_color, run_len)
        tr == BasicTransition(df[Len(df)], row, k, state, c, ru.run_len,
                              candidate, structure)
    IN  /\ iNext < MaxBasicBars
        /\ iNext' = k + 1
        /\ df' = Tail2(d)
        /\ run_color' = ru.run_color
        /\ run_len' = ru.run_len
        /\ state' = tr.state
        /\ candidate' = tr.candidate
        /\ structure' = tr.structure
        /\ UNCHANGED <<posVars, bot, picked>>

\* The frames of six rows colored red, red, green, green, red, red (a row
\* with close = open is red).
SixBarFrames ==
  LET Down == {b \in BarSet : Color(b) = "red"}
      Up   == {b \in BarSet : Color(b) = "green"}
  IN  {<<a, b, c, d, e, f>> :
         a \in Down, b \in Down, c \in Up, d \in Up, e \in Down, f \in Down}

\* A frame df has been loaded (TextNeuerAlgos.py, lines 7 to 15).
InitFrame ==
  /\ heap = <<>>
  /\ positions = <<>>
  /\ length = 0
  /\ tax_rate = 0
  /\ opens = <<>>
  /\ bot = None
  /\ DetectorInit
  /\ \E rows \in SixBarFrames :
       last = [op |-> "frame", args |-> [df |-> rows], obj |-> 0, exc |-> "none",
               ret |-> <<>>,
               pre |-> [heap |-> <<>>, positions |-> <<>>, length |-> 0]]

\* Frames of MaxFrame rows of either color, with a high and a low that lie
\* above or below those of the other rows.
MaxFrame == 6

RunBars ==
  {[open |-> oc[1], close |-> oc[2], high |-> hl[1], low |-> hl[2]] :
     oc \in {<<5, 6>>, <<6, 5>>}, hl \in {<<8, 4>>, <<7, 3>>}}

RunFrames == [1..MaxFrame -> RunBars]

\* A frame df of either coloring has been loaded.
InitRunFrame ==
  /\ heap = <<>>
  /\ positions = <<>>
  /\ length = 0
  /\ tax_rate = 0
  /\ opens = <<>>
  /\ bot = None
  /\ DetectorInit
  /\ \E rows \in RunFrames :
       last = [op |-> "frame", args |-> [df |-> rows], obj |-> 0, exc |-> "none",
               ret |-> <<>>,
               pre |-> [heap |-> <<>>, positions |-> <<>>, length |-> 0]]

\* Frames of MaxTrail rows, long enough for a candidate to be replaced and
\* then confirmed.
MaxTrail == 8

TrailFrames == [1..MaxTrail -> RunBars]

\* A frame df of MaxTrail rows has been loaded.
InitTrailFrame ==
  /\ heap = <<>>
  /\ positions = <<>>
  /\ length = 0
  /\ tax_rate = 0
  /\ opens = <<>>
  /\ bot = None
  /\ DetectorInit
  /\ \E rows \in TrailFrames :
       last = [op |-> "frame", args |-> [df |-> rows], obj |-> 0, exc |-> "none",
               ret |-> <<>>,
               pre |-> [heap |-> <<>>, positions |-> <<>>, length |-> 0]]

\* structure_df = detect_structure(df)
Detect ==
  /\ last.op = "frame"
  /\ last' = [last EXCEPT !.op = "detect_structure",
                          !.ret = detect_structure(last.args.df).structure]
  /\ UNCHANGED <<heap, positions, length, tax_rate, opens, bot, detVars>>

\* detect_structure applied to a loaded frame of either coloring.
NextRuns ==
  \/ Detect

SpecRuns == InitRunFrame /\ [][NextRuns]_vars

\* detect_structure applied to a loaded frame of MaxTrail rows.
NextTrail ==
  \/ Detect

SpecTrail == InitTrailFrame /\ [][NextTrail]_vars

\* A client of Position and StopLossPosition objects.
NextPosition ==
  \/ NewPosition
  \/ NewStopLossPosition
  \/ PositionClose
  \/ PositionForceClose
  \/ TestStopLossClose

SpecPosition == Init /\ [][NextPosition]_vars

\* A client of one PositionHub.
Next ==
  \/ NewPosition
  \/ PositionClose
  \/ HubOpenNewPosition
  \/ HubOpenPositionObject
  \/ HubOpenNonPosition
  \/ HubCloseLatestPosition
  \/ HubCheckConsistency

Spec == Init /\ [][Next]_vars

\* A client that also writes the fields of its PositionHub, as the tests do.
NextLedgerFields ==
  \/ NewPosition
  \/ PositionClose
  \/ HubOpenPositionObject
  \/ HubAppendDirect
  \/ HubIncrementLength
  \/ HubSetLength
  \/ HubCheckConsistency

SpecLedgerFields == Init /\ [][NextLedgerFields]_vars

\* A client of one PositionManagement and its hub.
NextManagement ==
  \/ NewPosition
  \/ HubOpenPositionObject
  \/ HubCloseLatestPosition
  \/ ManagementCloseOnCondition
  \/ ManagementCloseRemaining
  \/ ManagementEvaluate
  \/ TestCloseOnCondition

SpecManagement == InitManagement /\ [][NextManagement]_vars

\* A client that uses every operation of PositionHub, PositionManagement
\* and of the positions it holds, and that fills the ledger by hand as the
\* tests do.
NextLedger ==
  \/ NewPosition
  \/ HubAppendDirect
  \/ HubIncrementLength
  \/ PositionClose
  \/ PositionForceClose
  \/ HubOpenNewPosition
  \/ HubOpenPositionObject
  \/ HubOpenNonPosition
  \/ HubCloseLatestPosition
  \/ HubCheckConsistency
  \/ ManagementCloseOnCondition
  \/ ManagementCloseRemaining
  \/ ManagementEvaluate

SpecLedger == Init /\ [][NextLedger]_vars

\* The tests that construct and run an SMABot.
NextBot ==
  \/ TestBotRun
  \/ TestBotRunResetRun

SpecBot == Init /\ [][NextBot]_vars

\* The tests that construct an SMABot and ask it for one decision.
NextTick ==
  \/ TestDecideAndTrade

SpecTick == Init /\ [][NextTick]_vars

\* calculate_sma applied to price lists.
NextSma ==
  \/ CalculateSma

SpecSma == Init /\ [][NextSma]_vars

\* detect_structure reading a bar sequence row by row.
NextDetector ==
  \/ DetectorStep

SpecDetector == Init /\ [][NextDetector]_vars

\* The state machine of BasicAll.py reading a bar sequence row by row.
NextBasicAll ==
  \/ BasicAllStep

SpecBasicAll == Init /\ [][NextBasicAll]_vars

\* detect_structure applied to a loaded frame.
NextDetect ==
  \/ Detect

SpecDetect == InitFrame /\ [][NextDetect]_vars

\* ------------------------------------------------------------------ claims

HubOps == {"openNewPosition", "openPositionObject", "closeLatestPosition"}
OpenOps == {"openNewPosition", "openPositionObject"}

Latest == heap[positions[Len(positions)]]

\* C1: after any sequence of openNewPosition, openPositionObject and
\* closeLatestPosition calls, returned or raised, no ledger entry other than
\* the last one is open (so at most one is open, and it is the last).
C1_OnlyLastMayBeOpen ==
  \A i \in 1..Len(positions) :
    heap[positions[i]].isOpen => i = Len(positions)

\* C1 witness: the ledger holds an open position and an open call made on
\* that ledger has raised.
C1_Witness ==
  /\ Len(positions) >= 1
  /\ Latest.isOpen
  /\ last.op \in OpenOps
  /\ Len(last.pre.positions) >= 1
  /\ last.exc # "none"

\* C2: after every PositionHub operation, returned or raised, length equals
\* the number of positions stored in the ledger.
C2_LengthIsLedgerSize == length = Len(positions)

\* C2 witness: an open call has returned and stored a position.
C2_Witness ==
  /\ last.op \in OpenOps
  /\ last.exc = "none"
  /\ Len(positions) = Len(last.pre.positions) + 1

C4_CloseOnce ==
  (last.op = "close" /\ last.args.close_price > 0) =>
    LET before == last.pre.heap[last.obj]
        after  == heap[last.obj]
    IN  IF before.isOpen
          THEN /\ ~after.isOpen
               /\ after.close_price = Some(last.args.close_price)
          ELSE /\ last.exc = "AlreadyClosed"
               /\ after.isOpen = before.isOpen
               /\ after.close_price = before.close_price

\* The stop-loss condition as the claims state it, in hundredths.
ClaimedStopLoss(args, price) ==
  \/ /\ args.orderType = "long"
     /\ price * 100 <= args.entry_price * 100 - args.entry_price * args.stopLossPercent
  \/ /\ args.orderType = "short"
     /\ price * 100 >= args.entry_price * 100 + args.entry_price * args.stopLossPercent

\* C5: for a StopLossPosition built from valid arguments, the conditional
\* close at a price > 0 closes the position exactly when the stop-loss
\* condition holds for its order type, and otherwise leaves it open.
C5_ConditionalClose ==
  last.op = "StopLossPosition.close" =>
    /\ last.obj # 0
    /\ heap[last.obj].isOpen = ~ClaimedStopLoss(last.args, last.args.close_price)

\* C6: the unconditional close of an open StopLossPosition at a price > 0
\* always closes it and records the price, whatever the relation between
\* the price and the stop-loss threshold.
C6_UnconditionalClose ==
  last.op \in {"StopLossPosition.close", "StopLossPosition.forceClose"} =>
    /\ last.obj # 0
    /\ ~heap[last.obj].isOpen
    /\ heap[last.obj].close_price = Some(last.args.close_price)

\* C7: closeAllPositionsOnCondition(current_idx) closes every open StopLoss
\* position of the ledger whose stop-loss condition holds for the closing
\* price of the bar at current_idx, and leaves every other position unchanged.
C7_StopLossSweep ==
  /\ last.op = "test_close_positions_on_condition" =>
       /\ last.obj # 0
       /\ heap[last.obj].isOpen =
            ~ClaimedStopLoss(last.args, ClosingPriceAt(last.args.current_idx))
  /\ last.op = "closeAllPositionsOnCondition" =>
       \A o \in 1..Len(heap) :
         ~(heap[o].cls = "StopLossPosition" /\ last.pre.heap[o].isOpen)
           => heap[o] = last.pre.heap[o]

\* C8: after closeAllRemainingOpenPositions(current_idx) every position of
\* the ledger is closed with close_price equal to the closing price of the
\* bar at current_idx, the positions closed before the call included.
C8_AllClosedAtBar ==
  (last.op = "closeAllRemainingOpenPositions" /\ "current_idx" \in DOMAIN last.args) =>
    \A i \in 1..Len(positions) :
      /\ ~heap[positions[i]].isOpen
      /\ heap[positions[i]].close_price = Some(ClosingPriceAt(last.args.current_idx))

\* The profit the claims state for a closed position, in the units of Profit.
ClaimedProfit(pos) ==
  IF pos.orderType = "long"
    THEN (pos.close_price[1] - pos.entry_price) * pos.amount * (100 - tax_rate)
    ELSE (pos.entry_price - pos.close_price[1]) * pos.amount * (100 - tax_rate)

\* C9: on a ledger whose positions are all closed, evaluate() returns one
\* profit per position in ledger order, each the claimed profit of that
\* position, and changes neither the ledger nor any position.
C9_EvaluateProfits ==
  (last.op = "evaluate" /\ \A i \in 1..Len(positions) : ~heap[positions[i]].isOpen) =>
    /\ last.exc = "none"
    /\ Len(last.ret) = Len(positions)
    /\ \A i \in 1..Len(positions) : last.ret[i] = ClaimedProfit(heap[positions[i]])
    /\ heap = last.pre.heap
    /\ positions = last.pre.positions
    /\ length = last.pre.length

\* The trade_history of the bot the client holds; no bot, no history.
TradeHistory == IF bot = None THEN <<>> ELSE bot[1].trade_history

Logged(type) ==
  Cardinality({k \in 1..Len(TradeHistory) : TradeHistory[k].type = type})

RECURSIVE SumSeq(_)
SumSeq(q) == IF q = <<>> THEN 0 ELSE q[1] + SumSeq(Tail(q))

StrictlyIncreasing(q) == \A k \in 1..(Len(q) - 1) : q[k] < q[k + 1]
StrictlyDecreasing(q) == \A k \in 1..(Len(q) - 1) : q[k] > q[k + 1]

ValidWindows(args) ==
  /\ args.short_window > 0
  /\ args.short_window < args.long_window

\* C11: SMABot.run() on a bot built from valid arguments returns, and then no
\* position of the bot's ledger is open and the returned total_profit_loss is
\* the sum of the values evaluate() returns (0 when the ledger is empty).
C11_RunClosesAndSums ==
  (last.op = "run" /\ ValidWindows(last.args)) =>
    /\ last.exc = "none"
    /\ \A k \in 1..Len(positions) : ~heap[positions[k]].isOpen
    /\ last.ret[1].total = SumSeq(evaluate(heap, positions, tax_rate).ret)
    /\ Len(positions) = 0 => last.ret[1].total = 0

\* C12: run() on a freshly constructed bot, then reset() and run() again on
\* the same data, yields a second trade_history identical to the first.
C12_ResetReproduces ==
  (last.op = "run_reset_run" /\ ValidWindows(last.args)) =>
    /\ last.exc = "none"
    /\ last.ret[1].second = last.ret[1].first

\* C13: on a monotonically increasing closing-price series of at least
\* long_window bars, run() logs exactly one BUY and no SELL.
C13_UptrendOneBuy ==
  ( /\ last.op = "run"
    /\ ValidWindows(last.args)
    /\ StrictlyIncreasing(last.args.data.prices)
    /\ Len(last.args.data.prices) >= last.args.long_window ) =>
    /\ Logged("BUY") = 1
    /\ Logged("SELL") = 0

\* C15: the points detect_structure has emitted alternate in type: the first
\* is a Strong High and no two consecutive ones have the same type.
C15_TypesAlternate ==
  /\ structure # <<>> => structure[1].type = "Strong High"
  /\ \A j \in 1..(Len(structure) - 1) : structure[j].type # structure[j + 1].type

\* C15 witness: a Strong High, a Strong Low and a second Strong High have
\* been emitted.
C15_Witness ==
  /\ Len(structure) = 3
  /\ structure[3].type = "Strong High"

\* C16: the times of the emitted points strictly increase in emission order,
\* each is the time of a row read so far, and each price is that row's high
\* (Strong High) or low (Strong Low).
C16_TimesIncreaseAndReal ==
  /\ \A j \in 1..(Len(structure) - 1) : structure[j].time < structure[j + 1].time
  /\ \A j \in 1..Len(structure) :
       /\ structure[j].time \in 0..(iNext - 1)
       /\ structure[j].price =
            IF structure[j].type = "Strong High"
              THEN picked[structure[j].time].high
              ELSE picked[structure[j].time].low

\* C16 witness: two points have been emitted, the first one naming a row
\* older than the three rows read when it was confirmed.
C16_Witness ==
  /\ Len(structure) >= 2
  /\ \E j \in 1..(Len(structure) - 1) :
       structure[j].time + 4 < structure[j + 1].time

\* C17 as stated: on a six-row frame colored red, red, green, green, red, red
\* exactly two points are emitted, a Strong High followed by a Strong Low.
C17_SixBarsHighThenLow ==
  last.op = "detect_structure" =>
    /\ Len(last.ret) = 2
    /\ last.ret[1].type = "Strong High"
    /\ last.ret[2].type = "Strong Low"

\* C17 amended: on a six-row frame colored red, red, green, green, red, red
\* detect_structure emits no point.
C17_SixBarsEmitNothing ==
  last.op = "detect_structure" => last.ret = <<>>

\* C17 witness: the frame has been scanned, and the high of the second green
\* row lies below a high of the first red run.
C17_Witness ==
  /\ last.op = "detect_structure"
  /\ last.args.df[4].high < last.args.df[2].high

\* The errors raised for an argument that is out of range (ValueError).
InvalidArgument ==
  {"InvalidAmount", "InvalidEntryPrice", "InvalidStopLoss", "InvalidClosePrice"}

\* C18: every position that exists has amount > 0 and entry_price > 0, and
\* every StopLossPosition a stopLossPercent strictly between 0 and 100; a
\* construction with an argument that violates this fails with an
\* invalid-argument error and yields no position.
C18_InvalidArgumentsRejected ==
  /\ \A o \in 1..Len(heap) :
       /\ heap[o].amount > 0
       /\ heap[o].entry_price > 0
       /\ heap[o].cls = "StopLossPosition" =>
            /\ heap[o].stopLossPercent # None
            /\ heap[o].stopLossPercent[1] > 0
            /\ heap[o].stopLossPercent[1] < 100
  /\ ( /\ last.op = "Position"
       /\ (last.args.amount <= 0 \/ last.args.entry_price <= 0) ) =>
       /\ last.exc \in InvalidArgument
       /\ heap = last.pre.heap
  /\ ( /\ last.op = "StopLossPosition"
       /\ \/ last.args.amount <= 0
          \/ last.args.stopLossPercent <= 0
          \/ last.args.stopLossPercent >= 100 ) =>
       /\ last.exc \in InvalidArgument
       /\ heap = last.pre.heap

\* C19: close(close_price) with close_price <= 0 on an open Position fails
\* with an invalid-argument error and leaves the position open with no
\* close_price recorded.
C19_BadPriceLeavesOpen ==
  ( /\ last.op = "close"
    /\ last.args.close_price <= 0
    /\ last.pre.heap[last.obj].isOpen ) =>
    /\ last.exc = "InvalidClosePrice"
    /\ heap[last.obj].isOpen
    /\ heap[last.obj].close_price = None

\* C19 witness: close was called with a negative price on an open position.
C19_Witness ==
  /\ last.op = "close"
  /\ last.args.close_price < 0
  /\ last.pre.heap[last.obj].isOpen
  /\ last.exc = "InvalidClosePrice"

\* C20: forceClose(close_price) with close_price > 0 returns normally on an
\* open and on an already-closed position, and afterwards the position is
\* closed with close_price equal to the price of this call.
C20_ForceCloseAlwaysCloses ==
  (last.op = "forceClose" /\ last.args.close_price > 0) =>
    /\ last.exc = "none"
    /\ ~heap[last.obj].isOpen
    /\ heap[last.obj].close_price = Some(last.args.close_price)

\* C21: an open call that fails validation (openNewPosition with an amount
\* below SMALLEST_INVEST, openPositionObject with something that is not a
\* Position) raises the validation error and leaves the ledger as it was: the
\* same positions, the same length, every position as open or closed as before.
C21_FailedOpenChangesNothing ==
  LET tooSmall == last.op = "openNewPosition" /\ last.args.amount < SMALLEST_INVEST
      notAPosition == last.op = "openPositionObject" /\ last.obj = 0
  IN  (tooSmall \/ notAPosition) =>
        /\ last.exc = IF tooSmall THEN "TooSmall" ELSE "NotAPosition"
        /\ heap = last.pre.heap
        /\ positions = last.pre.positions
        /\ length = last.pre.length

\* C21 witness: an open call with too small an amount was made on a ledger whose
\* latest position is open, and that position is still open.
C21_Witness ==
  /\ last.op = "openNewPosition"
  /\ last.args.amount < SMALLEST_INVEST
  /\ last.exc = "TooSmall"
  /\ Len(last.pre.positions) >= 1
  /\ last.pre.heap[last.pre.positions[Len(last.pre.positions)]].isOpen
  /\ Latest.isOpen

\* C22: closeLatestPosition(close_price) on a hub that stores no position
\* fails with the empty-ledger error, and the hub is still empty with length 0.
C22_CloseLatestOnEmpty ==
  (last.op = "closeLatestPosition" /\ Len(last.pre.positions) = 0) =>
    /\ last.exc = "EmptyLedger"
    /\ positions = <<>>
    /\ length = 0

\* C22 witness: closeLatestPosition was called on an empty hub, with a price
\* that a close would accept.
C22_Witness ==
  /\ last.op = "closeLatestPosition"
  /\ last.pre.positions = <<>>
  /\ last.args.close_price > 0
  /\ last.exc = "EmptyLedger"

\* C23: closeLatestPosition(close_price) on a ledger whose latest position is
\* already closed raises nothing and changes nothing, close_price of the
\* latest position included; on a ledger whose latest position is open, with
\* a price above 0, it returns, the latest position is closed with close_price
\* recorded, and no other position changes.
C23_CloseLatestClosesOnlyOpen ==
  (last.op = "closeLatestPosition" /\ Len(last.pre.positions) >= 1) =>
    LET o == last.pre.positions[Len(last.pre.positions)]
    IN  /\ positions = last.pre.positions
        /\ length = last.pre.length
        /\ IF ~last.pre.heap[o].isOpen
             THEN /\ last.exc = "none"
                  /\ heap = last.pre.heap
             ELSE last.args.close_price > 0 =>
                    /\ last.exc = "none"
                    /\ ~heap[o].isOpen
                    /\ heap[o].close_price = Some(last.args.close_price)
                    /\ \A q \in 1..Len(heap) : q # o => heap[q] = last.pre.heap[q]

\* C24: checkConsistency() fails with the ledger-corrupt error whenever length
\* differs from the number of stored positions (also when length is 0 and
\* positions are stored) or a position before the last one is open, and
\* passes in every other case.
C24_CheckConsistencyVerdict ==
  last.op = "checkConsistency" =>
    LET corrupt ==
          \/ length # Len(positions)
          \/ \E k \in 1..(Len(positions) - 1) : heap[positions[k]].isOpen
    IN  last.exc = IF corrupt THEN "LedgerCorrupt" ELSE "none"

\* C28: a call of decide_and_trade on a bot built from valid arguments returns
\* exactly one of BUY, SELL and HOLD.  BUY only when no position was open and
\* short_sma > long_sma, and then one stop-loss position of the bot's amount
\* has been opened at the current price and one BUY logged; SELL only when a
\* position was open and short_sma < long_sma, and then the latest position
\* is closed at the current price and one SELL logged; HOLD, with the ledger
\* and trade_history as they were, in every other case, an unavailable SMA
\* included.
C28_OneActionPerTick ==
  (last.op = "decide_and_trade" /\ ValidWindows(last.args)) =>
    LET prices == last.args.data.prices
        short_sma == calculate_sma(prices, last.args.short_window).ret
        long_sma == calculate_sma(prices, last.args.long_window).ret
        known == short_sma # None /\ long_sma # None
        wasOpen == \E k \in 1..Len(last.pre.positions) :
                     last.pre.heap[last.pre.positions[k]].isOpen
        buy == known /\ ~wasOpen /\ Above(short_sma[1], long_sma[1])
        sell == known /\ wasOpen /\ Above(long_sma[1], short_sma[1])
        price == prices[Len(prices)]
    IN  /\ last.exc = "none"
        /\ last.ret = IF buy THEN Some("BUY")
                      ELSE IF sell THEN Some("SELL") ELSE Some("HOLD")
        /\ buy =>
             /\ Len(positions) = Len(last.pre.positions) + 1
             /\ Latest.isOpen
             /\ Latest.cls = "StopLossPosition"
             /\ Latest.amount = last.args.amount
             /\ Latest.entry_price = price
             /\ Logged("BUY") = 1
        /\ sell =>
             /\ ~Latest.isOpen
             /\ Latest.close_price = Some(price)
             /\ Logged("SELL") = 1
        /\ (~buy /\ ~sell) =>
             /\ heap = last.pre.heap
             /\ positions = last.pre.positions
             /\ TradeHistory = <<>>

\* C29: calculate_sma(prices, window) returns no value exactly when prices has
\* fewer than window elements; otherwise it returns the arithmetic mean of
\* the last window elements of prices, and prices is as it was.
C29_SmaIsMeanOfLastWindow ==
  last.op = "calculate_sma" =>
    LET prices == last.args.prices
        window == last.args.window
        n == Len(prices)
    IN  /\ last.exc = "none"
        /\ last.ret = None <=> n < window
        /\ n >= window =>
             last.ret[1].num * window =
               last.ret[1].den * SumSeq(SubSeq(prices, n - window + 1, n))

\* C29 witness: calculate_sma has returned the mean of a list whose last
\* window prices sum to something else than its first window prices.
C29_Witness ==
  /\ last.op = "calculate_sma"
  /\ last.ret # None
  /\ Len(last.args.prices) > last.args.window
  /\ SumSeq(SubSeq(last.args.prices, 1, last.args.window)) #
       SumSeq(SubSeq(last.args.prices,
                     Len(last.args.prices) - last.args.window + 1,
                     Len(last.args.prices)))

\* C30: in await_high, when the row just read is the second of a run of green
\* rows, the candidate is confirmed (appended as a Strong High, state
\* looking_low) if and only if that row's high is strictly below the
\* candidate's price; otherwise the state stays await_high, nothing is
\* appended, and the candidate is kept or replaced by a strictly higher high
\* of the three rows ending at the row just read.  In await_low the same
\* holds for runs of red rows, lows and strictly lower values.
C30_ConfirmOrKeepWaiting ==
  [][ LET cur == df'[Len(df')]
          prev == df[Len(df)]
          before == df[Len(df) - 1]
          second(color) == /\ Color(cur) = color
                           /\ Color(prev) = color
                           /\ Color(before) # color
          highs == {before.high, prev.high, cur.high}
          lows == {before.low, prev.low, cur.low}
          point(type) == [type |-> type, time |-> candidate[1].time,
                          price |-> candidate[1].price]
      IN  /\ (state = "await_high" /\ second("green")) =>
               IF cur.high < candidate[1].price
                 THEN /\ state' = "looking_low"
                      /\ structure' = Append(structure, point("Strong High"))
                 ELSE /\ state' = "await_high"
                      /\ structure' = structure
                      /\ \/ candidate' = candidate
                         \/ /\ candidate'[1].price > candidate[1].price
                            /\ candidate'[1].price \in highs
                            /\ \A h \in highs : h <= candidate'[1].price
          /\ (state = "await_low" /\ second("red")) =>
               IF cur.low > candidate[1].price
                 THEN /\ state' = "looking_high"
                      /\ structure' = Append(structure, point("Strong Low"))
                 ELSE /\ state' = "await_low"
                      /\ structure' = structure
                      /\ \/ candidate' = candidate
                         \/ /\ candidate'[1].price < candidate[1].price
                            /\ candidate'[1].price \in lows
                            /\ \A l \in lows : l >= candidate'[1].price
    ]_vars

\* C30 witness: a Strong High and a Strong Low have been confirmed, and in
\* await_high again the second row of a green run had a high equal to the
\* candidate's price, so that the candidate was neither confirmed nor replaced.
C30_Witness ==
  /\ Len(structure) >= 2
  /\ state = "await_high"
  /\ run_color = Some("green")
  /\ run_len = 2
  /\ df[Len(df)].high = candidate[1].price
  /\ candidate[1].time < iNext - 3

RECURSIVE TrueRun(_, _)
TrueRun(rows, j) ==
  IF j = 1 \/ Color(rows[j]) # Color(rows[j - 1]) THEN 1
  ELSE 1 + TrueRun(rows, j - 1)

\* The locals of detect_structure after the first j rows of the frame.
After(rows, j) == detect_structure(SubSeq(rows, 1, j))

\* The run length the transitions test at row j: run_len after the run update.
Tested(rows, j) ==
  RunUpdate(Color(rows[j]), After(rows, j - 1).run_color,
            After(rows, j - 1).run_len).run_len

\* The last row before row j at which a point was confirmed; 0 if none.
LastConfirm(rows, j) ==
  LET at == {c \in 1..(j - 1) :
               Len(After(rows, c).structure) > Len(After(rows, c - 1).structure)}
  IN  IF at = {} THEN 0 ELSE CHOOSE c \in at : \A e \in at : e <= c

C33_OneTransitionPerBar ==
  [][ LET after == [looking_high |-> "await_high", await_high |-> "looking_low",
                    looking_low |-> "await_low", await_low |-> "looking_high"]
      IN  /\ iNext = 0 => state = "looking_high"
          /\ state' \in {state, after[state]}
          /\ \/ structure' = structure
             \/ /\ Len(structure') = Len(structure) + 1
                /\ SubSeq(structure', 1, Len(structure)) = structure
          /\ iNext < 2 =>
               /\ state' = state
               /\ candidate = None
               /\ candidate' = None
    ]_vars

\* C33 witness: row 1 was the second row of a red run, and the detector is
\* still in looking_high without a candidate.
C33_Witness ==
  /\ iNext = 2
  /\ run_color = Some("red")
  /\ run_len = 2
  /\ state = "looking_high"
  /\ candidate = None

C36_ClosedHasClosePrice ==
  \A k \in 1..Len(positions) :
    LET pos == heap[positions[k]]
    IN  ~pos.isOpen => (pos.close_price # None /\ pos.close_price[1] > 0)

\* C37 as stated: after a successful openNewPosition or openPositionObject
\* the ledger is one entry longer than before and its last entry is open,
\* also when the Position given was already closed.
C37_OpenedEntryIsOpen ==
  (last.op \in {"openNewPosition", "openPositionObject"} /\ last.exc = "none") =>
    /\ Len(positions) = Len(last.pre.positions) + 1
    /\ length = last.pre.length + 1
    /\ SubSeq(positions, 1, Len(last.pre.positions)) = last.pre.positions
    /\ Latest.isOpen

\* C37: after a successful openNewPosition or openPositionObject the ledger
\* is one entry longer than before; the last entry of openNewPosition is
\* open, and the last entry of openPositionObject is the Position given, open
\* exactly if it was open when it was given.
C37_OpenedEntryIsAsGiven ==
  (last.op \in {"openNewPosition", "openPositionObject"} /\ last.exc = "none") =>
    /\ Len(positions) = Len(last.pre.positions) + 1
    /\ length = last.pre.length + 1
    /\ SubSeq(positions, 1, Len(last.pre.positions)) = last.pre.positions
    /\ IF last.op = "openNewPosition"
         THEN Latest.isOpen
         ELSE /\ positions[Len(positions)] = last.obj
              /\ Latest = last.pre.heap[last.obj]

\* C37 witness: openPositionObject has stored a Position that was closed
\* before the call.
C37_Witness ==
  /\ last.op = "openPositionObject"
  /\ last.exc = "none"
  /\ ~last.pre.heap[last.obj].isOpen
  /\ Len(positions) = 1

\* The locals of detect_structure after each row of the frame, from no row on.
Trail(rows) == [j \in 0..Len(rows) |-> After(rows, j)]

\* The row at which the detector entered state st for the last time up to
\* row j.
EnteredAt(trail, st, j) ==
  CHOOSE e \in 1..j :
    /\ trail[e - 1].state # st
    /\ trail[e].state = st
    /\ \A f \in (e + 1)..j : trail[f].state = st

\* C39: from one row to the next the candidate price does not decrease while
\* the detector stays in await_high and does not increase while it stays in
\* await_low, and the price of a confirmed Strong High is at least the price
\* of the candidate chosen at the row where await_high was entered.
C39_CandidateOnlyImproves ==
  last.op = "detect_structure" =>
    LET rows  == last.args.df
        trail == Trail(rows)
    IN  \A j \in 1..Len(rows) :
          LET was == trail[j - 1]
              now == trail[j]
          IN  /\ (was.state = "await_high" /\ now.state = "await_high") =>
                   now.candidate[1].price >= was.candidate[1].price
              /\ (was.state = "await_low" /\ now.state = "await_low") =>
                   now.candidate[1].price <= was.candidate[1].price
              /\ (was.state = "await_high" /\ now.state = "looking_low") =>
                   LET e == EnteredAt(trail, "await_high", j - 1)
                       point == now.structure[Len(now.structure)]
                   IN  /\ Len(now.structure) = Len(was.structure) + 1
                       /\ point.type = "Strong High"
                       /\ point.price >= trail[e].candidate[1].price

\* C39 witness: a frame has been scanned in which a Strong High was
\* confirmed at a price above that of the candidate chosen when await_high
\* was entered.
C39_Witness ==
  /\ last.op = "detect_structure"
  /\ LET rows  == last.args.df
         trail == Trail(rows)
     IN  \E j \in 1..Len(rows) :
           /\ trail[j - 1].state = "await_high"
           /\ trail[j].state = "looking_low"
           /\ trail[j].structure[Len(trail[j].structure)].price >
                trail[EnteredAt(trail, "await_high", j - 1)].candidate[1].price

\* C40: when a row has been processed, the detector holds a candidate exactly
\* if its state is await_high or await_low; in looking_high and looking_low
\* the candidate is unset.
C40_CandidateIffAwaiting ==
  (candidate # None) <=> (state \in {"await_high", "await_low"})

\* C40 witness: a Strong High has been confirmed at the last row read, and
\* the detector is in looking_low with the candidate unset again.
C40_Witness ==
  /\ state = "looking_low"
  /\ candidate = None
  /\ run_len = 0
  /\ Len(structure) >= 1
  /\ structure[Len(structure)].type = "Strong High"

====
